---- MODULE Spec2Model ----
(***************************************************************************)
(* Model of denoise-pix2pix: datasets.py (load_case, normalize,            *)
(* DataLoader) and plot_utils.py (calc_psvol, the slider viewers,          *)
(* mae_calc).                                                              *)
(*                                                                         *)
(* A numpy array is a record [dtype, shape, flat]: its shape and its       *)
(* elements in row-major order.  An element of a decoded volume is an      *)
(* integer; an element produced by a true division is a record             *)
(* [t |-> "q", n, d] (the rational n/d, d > 0), [t |-> "nan"] or           *)
(* [t |-> "inf", s] (s the sign).  Python indices are 0-based, TLA+        *)
(* sequences 1-based.                                                      *)
(***************************************************************************)
EXTENDS Integers, Sequences, FiniteSets, TLC

VARIABLES
    files,          \* the two data directories: dir -> case number -> volume or NoFile
    case_list,      \* DataLoader argument
    shape,          \* DataLoader argument
    pc,             \* DataLoader: "loop", "returned", "raised"
    pos,            \* DataLoader: position in case_list of the next case
    inp_img,        \* DataLoader local list
    tar_img,        \* DataLoader local list
    train_dataset,  \* what DataLoader returned (None before / without a return)
    exc,            \* the exception that left DataLoader (None if none)
    fn,             \* direct call of a function: its name and arguments
    ret,            \* result of that call (None before it)
    viewer,         \* the open slider viewer: its kind, volumes and slider
    shown           \* outcome of the viewer's last callback

vars == <<files, case_list, shape, pc, pos, inp_img, tar_img, train_dataset, exc,
          fn, ret, viewer, shown>>

buildVars == <<case_list, shape, pc, pos, inp_img, tar_img, train_dataset, exc>>

None == [t |-> "None"]
NoFile == [t |-> "NoFile"]

---------------------------------------------------------------------------
(* Bounds *)

MaxCases == 2       \* longest case_list
MaxSlices == 2      \* most slices of a decoded volume
MaxDim == 2         \* largest height / width of a slice or of a target shape
IntBits == 3        \* width of the signed integer voxel type (int16 scaled down)
MaxVoxels == 3      \* most voxels of a volume handed to normalize directly
MaxAxis == 3        \* longest axis of an array handed to mae_calc

---------------------------------------------------------------------------
(* Numbers *)

RECURSIVE Pow2(_)
Pow2(n) == IF n = 0 THEN 1 ELSE 2 * Pow2(n - 1)

MinInt == -Pow2(IntBits - 1)
MaxInt == Pow2(IntBits - 1) - 1

\* two's-complement wrap-around of a fixed-width signed integer
Wrap(x) == ((x - MinInt) % Pow2(IntBits)) + MinInt

\* numpy subtraction: an integer dtype wraps, a floating dtype does not
Sub(dtype, a, b) == IF dtype = "int16" THEN Wrap(a - b) ELSE a - b

Nan == [t |-> "nan"]
Inf(s) == [t |-> "inf", s |-> s]
Q(n, d) == [t |-> "q", n |-> n, d |-> d]

\* numpy true division a / d of two numbers (x/0 = +-inf, 0/0 = nan, a warning only)
TrueDiv(a, d) ==
    IF d = 0 THEN (IF a = 0 THEN Nan ELSE Inf(IF a > 0 THEN 1 ELSE -1))
    ELSE IF d > 0 THEN Q(a, d) ELSE Q(-a, -d)

\* (q * 2) - 1
Times2Minus1(q) == IF q.t = "q" THEN Q(2 * q.n - q.d, q.d) ELSE q

IsFinite(q) == q.t = "q"
QEq(q, m) == q.t = "q" /\ q.n = m * q.d
QLeq(p, q) == p.n * q.d <= q.n * p.d

---------------------------------------------------------------------------
(* numpy arrays *)

Array(dtype, shp, flat) == [dtype |-> dtype, shape |-> shp, flat |-> flat]

RECURSIVE Prod(_)
Prod(s) == IF s = <<>> THEN 1 ELSE Head(s) * Prod(Tail(s))

RECURSIVE SeqMin(_)
SeqMin(s) == IF Len(s) = 1 THEN s[1]
             ELSE LET m == SeqMin(Tail(s)) IN IF s[1] < m THEN s[1] ELSE m

RECURSIVE SeqMax(_)
SeqMax(s) == IF Len(s) = 1 THEN s[1]
             ELSE LET m == SeqMax(Tail(s)) IN IF s[1] > m THEN s[1] ELSE m

\* len(a)
PyLen(a) == a.shape[1]

\* a[i], 0 <= i < len(a): the i-th sub-array along axis 0
Index0(a, i) ==
    LET sz == Prod(Tail(a.shape))
    IN Array(a.dtype, Tail(a.shape), SubSeq(a.flat, i * sz + 1, (i + 1) * sz))

\* np.expand_dims(a, axis=-1)
ExpandDimsLast(a) == Array(a.dtype, Append(a.shape, 1), a.flat)

\* a.astype('float32'): nan and inf stay nan and inf
AsFloat32(a) == Array("float32", a.shape, a.flat)

RECURSIVE ConcatFlat(_)
ConcatFlat(l) == IF l = <<>> THEN <<>> ELSE Head(l).flat \o ConcatFlat(Tail(l))

\* np.array(l) of a list of equal-shape arrays: stacked along a new axis 0;
\* np.array([]) has shape (0,)
NpArray(l) ==
    IF l = <<>> THEN Array("float64", <<0>>, <<>>)
    ELSE Array(l[1].dtype, <<Len(l)>> \o l[1].shape, ConcatFlat(l))

\* cv2.resize(src, dsize, interpolation=cv2.INTER_NEAREST) of a 2-D array:
\* dsize is (width, height), so the result has dsize[2] rows and dsize[1]
\* columns; destination (y, x) takes source (floor(y*rows/h), floor(x*cols/w)).
Resize(src, dsize) ==
    LET w == dsize[1]
        h == dsize[2]
        rows == src.shape[1]
        cols == src.shape[2]
        sy(y) == IF (y * rows) \div h < rows - 1 THEN (y * rows) \div h ELSE rows - 1
        sx(x) == IF (x * cols) \div w < cols - 1 THEN (x * cols) \div w ELSE cols - 1
    IN Array(src.dtype, <<h, w>>,
             [i \in 1..(h * w) |->
                 src.flat[sy((i - 1) \div w) * cols + sx((i - 1) % w) + 1]])

\* np.expand_dims(cv2.resize(s, shape, interpolation=cv2.INTER_NEAREST),
\*                axis=-1).astype('float32')
Resample(s, shp) == AsFloat32(ExpandDimsLast(Resize(s, shp)))

---------------------------------------------------------------------------
(* datasets.py *)

dirs == [low_res |-> "data/low_res", high_res |-> "data/source",
         metrics |-> "data/metrics.xlsx"]

\* def normalize(im): (((im - im.min())/(im.max()-im.min()))*2)-1
normalize(im) ==
    LET mn == SeqMin(im.flat)
        mx == SeqMax(im.flat)
        den == Sub(im.dtype, mx, mn)
    IN Array("float64", im.shape,
             [i \in 1..Len(im.flat) |->
                 Times2Minus1(TrueDiv(Sub(im.dtype, im.flat[i], mn), den))])

RECURSIVE LastToken(_)
\* case_name.split('_')[-1] of a string given as its sequence of characters
LastToken(s) ==
    IF s = <<>> \/ s[Len(s)] = "_" THEN <<>>
    ELSE Append(LastToken(SubSeq(s, 1, Len(s) - 1)), s[Len(s)])

\* glob.glob(f"{dir}/{case_num}.nii.gz"): the matching paths (case_num holds
\* no wildcard character)
Glob(fs, dir, case_num) ==
    IF case_num \in DOMAIN fs[dir] /\ fs[dir][case_num] # NoFile
    THEN << <<dir, case_num>> >> ELSE <<>>

\* sitk.GetArrayFromImage(sitk.ReadImage(path))
ReadArray(fs, path) == fs[path[1]][path[2]]

Raise(e) == [t |-> "raise", exc |-> e]

RECURSIVE ResampleLoopReversed(_, _, _, _, _, _, _)
\* ResampleLoop pairing slice i of A with slice len(A)-1-i of B
ResampleLoopReversed(A, B, shp, tag, i, xs, ys) ==
    IF i >= PyLen(A) THEN [t |-> "ok", xs |-> xs, ys |-> ys]
    ELSE IF PyLen(A) - 1 - i >= PyLen(B) THEN [t |-> "raise", exc |-> "IndexError", xs |-> xs, ys |-> ys]
    ELSE ResampleLoopReversed(A, B, shp, tag, i + 1,
            Append(xs, [arr |-> Resample(Index0(A, i), shp), case |-> tag, slice |-> i]),
            Append(ys, [arr |-> Resample(Index0(B, PyLen(A) - 1 - i), shp),
                        case |-> tag, slice |-> PyLen(A) - 1 - i]))

RECURSIVE ResampleLoop(_, _, _, _, _, _, _)
\* for i in range(len(A)): xs.append(resample(A[i])); ys.append(resample(B[i])),
\* from iteration i with the lists xs, ys; tag is where the slices come from
ResampleLoop(A, B, shp, tag, i, xs, ys) ==
    IF i >= PyLen(A) THEN [t |-> "ok", xs |-> xs, ys |-> ys]
    ELSE IF i >= PyLen(B) THEN [t |-> "raise", exc |-> "IndexError", xs |-> xs, ys |-> ys]
    ELSE ResampleLoop(A, B, shp, tag, i + 1,
            Append(xs, [arr |-> Resample(Index0(A, i), shp), case |-> tag, slice |-> i]),
            Append(ys, [arr |-> Resample(Index0(B, i), shp), case |-> tag, slice |-> i]))

Arrs(l) == [i \in 1..Len(l) |-> l[i].arr]

\* def load_case(case_name, preprocess=False, input_shape=(512,512))
load_case(fs, case_name, preprocess, input_shape) ==
    LET case_num == LastToken(case_name)
        path_list == Glob(fs, dirs.high_res, case_num)
        path_listp == Glob(fs, dirs.low_res, case_num)
    IN IF path_list = <<>> THEN Raise("IndexError")
       ELSE IF path_listp = <<>> THEN Raise("IndexError")
       ELSE LET target == ReadArray(fs, path_list[1])
                inp == ReadArray(fs, path_listp[1])
                r == ResampleLoop(inp, target, input_shape, 0, 0, <<>>, <<>>)
            IN IF ~preprocess THEN [t |-> "ok", inp |-> inp, target |-> target]
               ELSE IF r.t = "raise" THEN Raise(r.exc)
               ELSE [t |-> "ok", inp |-> normalize(NpArray(Arrs(r.xs))),
                                 target |-> normalize(NpArray(Arrs(r.ys)))]

\* one iteration of DataLoader's loop over case_list skipping a case whose
\* load fails
LoopBodySkipFailed(fs, case_name, shp, tag, xs, ys) ==
    LET c == load_case(fs, case_name, FALSE, <<512, 512>>)
    IN IF c.t = "raise" THEN [t |-> "ok", xs |-> xs, ys |-> ys]
       ELSE ResampleLoop(normalize(c.inp), normalize(c.target), shp, tag, 0, xs, ys)

\* one iteration of DataLoader's loop over case_list (lines 49-58), entered
\* with the lists xs, ys
LoopBody(fs, case_name, shp, tag, xs, ys) ==
    LET c == load_case(fs, case_name, FALSE, <<512, 512>>)
    IN IF c.t = "raise" THEN [t |-> "raise", exc |-> c.exc, xs |-> xs, ys |-> ys]
       ELSE ResampleLoop(normalize(c.inp), normalize(c.target), shp, tag, 0, xs, ys)

\* DataLoader: the body of `for case_name in tqdm(case_list)`
LoopCase ==
    /\ pc = "loop"
    /\ pos <= Len(case_list)
    /\ LET r == LoopBody(files, case_list[pos], shape, pos, inp_img, tar_img)
       IN /\ inp_img' = r.xs
          /\ tar_img' = r.ys
          /\ IF r.t = "raise"
             THEN pc' = "raised" /\ exc' = r.exc /\ pos' = pos
             ELSE pc' = "loop" /\ exc' = exc /\ pos' = pos + 1
    /\ UNCHANGED <<files, case_list, shape, train_dataset, fn, ret, viewer, shown>>

\* DataLoader: lines 60-64, after the loop
Return ==
    /\ pc = "loop"
    /\ pos > Len(case_list)
    /\ train_dataset' = <<NpArray(Arrs(inp_img)), NpArray(Arrs(tar_img))>>
    /\ pc' = "returned"
    /\ UNCHANGED <<files, case_list, shape, pos, inp_img, tar_img, exc, fn, ret, viewer, shown>>

---------------------------------------------------------------------------
(* Inputs *)

\* a decoded volume of n slices of rows x cols voxels
Decoded(dtype, n, rows, cols, kind) ==
    Array(dtype, <<n, rows, cols>>,
          [i \in 1..(n * rows * cols) |->
              IF kind = "const" THEN 1 ELSE (i - 1) % (MaxInt + 1)])

\* the volumes a directory can hold: up to MaxSlices slices of rows x cols
\* voxels, and a constant-valued one
BuildVolumes(rows, cols) ==
    { Decoded("int16", n, rows, cols, "ramp") : n \in 1..MaxSlices }
        \cup { Decoded("int16", 1, rows, cols, "const") }

CaseNames == { <<"c", "_", "1">>, <<"a", "_", "b", "_", "2">> }
CaseNums == { LastToken(c) : c \in CaseNames }

\* low-res slices are 1 x 2, high-res slices 2 x 2
FileSystems ==
    { [d \in {dirs.low_res, dirs.high_res} |-> IF d = dirs.low_res THEN l ELSE h] :
        l \in [CaseNums -> BuildVolumes(1, 2) \cup {NoFile}],
        h \in [CaseNums -> BuildVolumes(2, 2) \cup {NoFile}] }

RECURSIVE SeqsUpTo(_, _)
SeqsUpTo(S, n) ==
    IF n = 0 THEN { <<>> }
    ELSE SeqsUpTo(S, n - 1) \cup { Append(s, x) : s \in { q \in SeqsUpTo(S, n - 1) : Len(q) = n - 1 }, x \in S }

Shapes == (1..MaxDim) \X (1..MaxDim)

\* the target shapes of a build: one wider than high, one higher than wide
BuildShapes == { <<1, MaxDim>>, <<MaxDim, 1>> }

Idle == [t |-> "idle"]

Init ==
    /\ files \in FileSystems
    /\ case_list \in SeqsUpTo(CaseNames, MaxCases)
    /\ shape \in BuildShapes
    /\ pc = "loop"
    /\ pos = 1
    /\ inp_img = <<>>
    /\ tar_img = <<>>
    /\ train_dataset = None
    /\ exc = None
    /\ fn = Idle
    /\ ret = None
    /\ viewer = Idle
    /\ shown = None

Next == LoopCase \/ Return

Spec == Init /\ [][Next]_vars

---------------------------------------------------------------------------
(* Direct calls of normalize, of the resampling expression and of load_case *)

\* every volume of n voxels (n slices of 1 x 1), integer or floating
NormInputs ==
    { Array(dt, <<Len(f), 1, 1>>, f) :
        dt \in {"int16", "float32"},
        f \in UNION { [1..n -> MinInt..MaxInt] : n \in 1..MaxVoxels } }

\* a 2-D slice whose voxels are all different
SliceInputs ==
    { Array("float64", <<r, c>>, [i \in 1..(r * c) |-> i - 1]) : r \in 1..MaxDim, c \in 1..MaxDim }

CallNormalize ==
    /\ fn.t = "normalize"
    /\ ret = None
    /\ ret' = [t |-> "ok", value |-> normalize(fn.im)]
    /\ UNCHANGED <<files, buildVars, fn, viewer, shown>>

CallResample ==
    /\ fn.t = "resample"
    /\ ret = None
    /\ ret' = [t |-> "ok", value |-> Resample(fn.s, fn.shape)]
    /\ UNCHANGED <<files, buildVars, fn, viewer, shown>>

CallLoadCase ==
    /\ fn.t = "load_case"
    /\ ret = None
    /\ ret' = load_case(files, fn.case_name, fn.preprocess, fn.input_shape)
    /\ UNCHANGED <<files, buildVars, fn, viewer, shown>>

NoFiles == [d \in {dirs.low_res, dirs.high_res} |-> [c \in CaseNums |-> NoFile]]

InitFn ==
    /\ \/ /\ fn \in { [t |-> "normalize", im |-> a] : a \in NormInputs }
          /\ files = NoFiles
       \/ /\ fn \in { [t |-> "resample", s |-> a, shape |-> sh] : a \in SliceInputs, sh \in Shapes }
          /\ files = NoFiles
       \/ /\ fn \in { [t |-> "load_case", case_name |-> c, preprocess |-> b, input_shape |-> sh] :
                         c \in CaseNames, b \in BOOLEAN, sh \in Shapes }
          /\ files \in FileSystems
    /\ case_list = <<>>
    /\ shape = <<512, 512>>
    /\ pc = "idle"
    /\ pos = 1
    /\ inp_img = <<>>
    /\ tar_img = <<>>
    /\ train_dataset = None
    /\ exc = None
    /\ ret = None
    /\ viewer = Idle
    /\ shown = None

NextFn == CallNormalize \/ CallResample \/ CallLoadCase

SpecFn == InitFn /\ [][NextFn]_vars

---------------------------------------------------------------------------
(* Properties of the dataset build *)

LowVolume(case_name) == files[dirs.low_res][LastToken(case_name)]
HighVolume(case_name) == files[dirs.high_res][LastToken(case_name)]

RECURSIVE SumSlices(_, _)
\* the sum over case_list of the slice counts of the cases' volumes in dir
SumSlices(dir, cl) ==
    IF cl = <<>> THEN 0
    ELSE PyLen(files[dir][LastToken(Head(cl))]) + SumSlices(dir, Tail(cl))

\* processing case_name raises: a file is missing, or indexing a volume fails
CaseFails(case_name) ==
    \/ LowVolume(case_name) = NoFile
    \/ HighVolume(case_name) = NoFile
    \/ PyLen(LowVolume(case_name)) > PyLen(HighVolume(case_name))

\* C1: whenever DataLoader returns, the two returned sequences have the same
\* length, and it is the sum over the listed cases of the slice count of
\* the case's volumes, the low-res and the high-res one.
C1_LengthIsSliceSum ==
    pc = "returned" =>
        /\ PyLen(train_dataset[1]) = PyLen(train_dataset[2])
        /\ PyLen(train_dataset[1]) = SumSlices(dirs.low_res, case_list)
        /\ PyLen(train_dataset[2]) = SumSlices(dirs.high_res, case_list)

\* C2: in the returned dataset inputs[i] and targets[i] come from the same
\* case and slice position (the input from the normalized low-res volume,
\* the target from the normalized high-res one), the slices of an earlier
\* case precede those of a later case, and the slices of one case are in
\* increasing slice order.
C2_PairedInOrder ==
    pc = "returned" =>
        /\ PyLen(train_dataset[1]) = Len(inp_img)
        /\ PyLen(train_dataset[2]) = Len(tar_img)
        /\ Len(inp_img) = Len(tar_img)
        /\ \A i \in 1..Len(inp_img) :
              /\ inp_img[i].case = tar_img[i].case
              /\ inp_img[i].slice = tar_img[i].slice
              /\ Index0(train_dataset[1], i - 1) = inp_img[i].arr
              /\ Index0(train_dataset[2], i - 1) = tar_img[i].arr
              /\ inp_img[i].arr =
                    Resample(Index0(normalize(LowVolume(case_list[inp_img[i].case])),
                                    inp_img[i].slice), shape)
              /\ tar_img[i].arr =
                    Resample(Index0(normalize(HighVolume(case_list[tar_img[i].case])),
                                    tar_img[i].slice), shape)
        /\ \A i, j \in 1..Len(inp_img) :
              i < j => \/ inp_img[i].case < inp_img[j].case
                       \/ /\ inp_img[i].case = inp_img[j].case
                          /\ inp_img[i].slice < inp_img[j].slice

\* C2 witness: a build of two different cases of two slices each returned
C2_Witness ==
    /\ pc = "returned"
    /\ Len(case_list) = 2
    /\ case_list[1] # case_list[2]
    /\ Len(inp_img) = 4
    /\ LowVolume(case_list[1]) # HighVolume(case_list[1])

\* C3: a build that returns has no case whose low-res and high-res volumes
\* differ in slice count (such a case makes the build fail).
C3_MismatchFails ==
    pc = "returned" =>
        \A i \in 1..Len(case_list) :
            PyLen(LowVolume(case_list[i])) = PyLen(HighVolume(case_list[i]))

\* C4: the build is fail-fast: it raises at the first case whose processing
\* fails, the error reaches the caller, nothing is returned and nothing
\* runs afterwards; and a build that returns skipped no case.
C4_FailFast ==
    /\ pc = "raised" =>
          /\ train_dataset = None
          /\ exc = "IndexError"
          /\ pos \in 1..Len(case_list)
          /\ CaseFails(case_list[pos])
          /\ \A j \in 1..(pos - 1) : ~CaseFails(case_list[j])
          /\ ~ENABLED Next
    /\ pc = "loop" =>
          /\ train_dataset = None
          /\ exc = None
          /\ \A j \in 1..(pos - 1) : ~CaseFails(case_list[j])
    /\ pc = "returned" =>
          /\ exc = None
          /\ \A j \in 1..Len(case_list) :
                /\ ~CaseFails(case_list[j])
                /\ \E i \in 1..Len(inp_img) : inp_img[i].case = j

\* C4 witness: the second case has no high-res file, after a first case
\* whose slices were already collected
C4_Witness ==
    /\ pc = "raised"
    /\ pos = 2
    /\ Len(inp_img) > 0
    /\ HighVolume(case_list[2]) = NoFile
    /\ LowVolume(case_list[2]) # NoFile

---------------------------------------------------------------------------
(* Properties of the resampling and of normalize *)

\* C5: resampling a 2-D slice to target_shape = (H, W) yields an array of
\* shape (H, W, 1).
C5_ResampledShape ==
    (fn.t = "resample" /\ ret # None) =>
        /\ ret.t = "ok"
        /\ ret.value.shape = <<fn.shape[1], fn.shape[2], 1>>

Degenerate(im) == SeqMax(im.flat) = SeqMin(im.flat)

\* C6: for a non-degenerate volume every value of normalize(v) lies in
\* [-1, 1], the largest is 1 and the smallest is -1.
C6_NormalizedRange ==
    (fn.t = "normalize" /\ ret # None /\ ~Degenerate(fn.im)) =>
        /\ ret.t = "ok"
        /\ \A i \in 1..Len(ret.value.flat) :
              /\ IsFinite(ret.value.flat[i])
              /\ QLeq(Q(-1, 1), ret.value.flat[i])
              /\ QLeq(ret.value.flat[i], Q(1, 1))
        /\ \E i \in 1..Len(ret.value.flat) : QEq(ret.value.flat[i], 1)
        /\ \E i \in 1..Len(ret.value.flat) : QEq(ret.value.flat[i], -1)

\* C7: normalizing a constant-valued volume fails with an error or returns
\* defined values, never NaN or Inf.
C7_DegenerateExplicit ==
    (fn.t = "normalize" /\ ret # None /\ Degenerate(fn.im)) =>
        \/ ret.t = "raise"
        \/ \A i \in 1..Len(ret.value.flat) : IsFinite(ret.value.flat[i])

---------------------------------------------------------------------------
(* plot_utils.py *)

\* the names calc_psvol assigns, which makes them local to the function
\* (psnr, ssim: lines 10-11; i: line 12; range: line 13)
CalcPsvolLocals == {"psnr", "ssim", "i", "range"}

\* the names calc_psvol can read besides its locals and parameters: the
\* module's globals (lines 1-7, the functions) and the builtins it uses
PlotGlobals ==
    {"np", "interact", "IntSlider", "PathPatch", "Rectangle", "plt", "Path",
     "compare_psnr", "compare_ssim", "calc_psvol", "show_volume",
     "interactive_show", "show_3volume", "interactive_inference", "mae_calc",
     "range", "len"}

RECURSIVE PsvolLoop(_, _, _, _, _)
\* the loop body of calc_psvol (lines 13-15) from iteration i: the metrics
\* of slice i are the pair of slices and the data range they are given
PsvolLoop(high, low, i, psnr, ssim) ==
    IF i >= PyLen(high) THEN [t |-> "ok", psnr |-> psnr, ssim |-> ssim]
    ELSE IF "rangeD" \notin CalcPsvolLocals \cup PlotGlobals THEN Raise("NameError")
    ELSE IF i >= PyLen(low) THEN Raise("IndexError")
    ELSE LET h == Index0(high, i)
             m == [high |-> h, low |-> Index0(low, i),
                   data_range |-> Sub(h.dtype, SeqMax(h.flat), SeqMin(h.flat))]
         IN PsvolLoop(high, low, i + 1, Append(psnr, m), Append(ssim, m))

\* def calc_psvol(high, low): line 12 reads `range`, a local of the function
\* that nothing has assigned yet
calc_psvol(high, low) ==
    IF "range" \in CalcPsvolLocals THEN Raise("UnboundLocalError")
    ELSE PsvolLoop(high, low, 0, <<>>, <<>>)

\* vol[k][z, ...] for each displayed volume, in the order the code indexes them
IndexAll(vols, z) ==
    IF \E j \in 1..Len(vols) : z >= PyLen(vols[j]) THEN Raise("IndexError")
    ELSE [t |-> "ok", value |-> [j \in 1..Len(vols) |-> Index0(vols[j], z)]]

\* def show_volume(vol, z, fig_size=(14, 7))
show_volume(vol, z) ==
    LET r == calc_psvol(vol[2], vol[1])
    IN IF r.t = "raise" THEN r
       ELSE IF Len(vol[1].shape) # 3 THEN Raise("ValueError")
       ELSE IF z >= Len(r.psnr) THEN Raise("IndexError")
       ELSE IndexAll(vol, z)

\* def show_3volume(vol, z, fig_size=(21, 7))
show_3volume(vol, z) ==
    IF Len(vol[1].shape) # 4 THEN Raise("ValueError") ELSE IndexAll(vol, z)

\* IntSlider(min=0, max=vol_shape[0], step=1, value=int(vol_shape[0] / 2))
IntSlider(vol) ==
    [min |-> 0, max |-> PyLen(vol[1]), value |-> PyLen(vol[1]) \div 2]

Callback(kind, vol, z) ==
    IF kind = "show" THEN show_volume(vol, z) ELSE show_3volume(vol, z)

\* def interactive_show(vol): interact builds the slider and calls the
\* callback once with the slider's initial value
interactive_show ==
    /\ fn.t = "interactive_show"
    /\ viewer = Idle
    /\ viewer' = [t |-> "show", vol |-> fn.vol, slider |-> IntSlider(fn.vol)]
    /\ shown' = show_volume(fn.vol, IntSlider(fn.vol).value)
    /\ UNCHANGED <<files, buildVars, fn, ret>>

\* def interactive_inference(vol)
interactive_inference ==
    /\ fn.t = "interactive_inference"
    /\ viewer = Idle
    /\ viewer' = [t |-> "inference", vol |-> fn.vol, slider |-> IntSlider(fn.vol)]
    /\ shown' = show_3volume(fn.vol, IntSlider(fn.vol).value)
    /\ UNCHANGED <<files, buildVars, fn, ret>>

\* the user drags the slider to any of its positions min..max; interact
\* calls the callback with it
Slide ==
    /\ viewer # Idle
    /\ \E z \in viewer.slider.min .. viewer.slider.max :
          /\ z # viewer.slider.value
          /\ viewer' = [viewer EXCEPT !.slider.value = z]
          /\ shown' = Callback(viewer.t, viewer.vol, z)
    /\ UNCHANGED <<files, buildVars, fn, ret>>

Max(a, b) == IF a > b THEN a ELSE b
Abs(x) == IF x < 0 THEN -x ELSE x

\* the shape padded on the left with 1s to n axes
PadShape(shp, n) == [j \in 1..(n - Len(shp)) |-> 1] \o shp

\* numpy's broadcasting rule: aligned from the last axis, two lengths are
\* compatible when they are equal or one of them is 1
Broadcastable(sa, sb) ==
    LET n == Max(Len(sa), Len(sb))
        pa == PadShape(sa, n)
        pb == PadShape(sb, n)
    IN \A j \in 1..n : pa[j] = pb[j] \/ pa[j] = 1 \/ pb[j] = 1

BroadcastShape(sa, sb) ==
    LET n == Max(Len(sa), Len(sb))
        pa == PadShape(sa, n)
        pb == PadShape(sb, n)
    IN [j \in 1..n |-> IF pa[j] = 1 THEN pb[j] ELSE pa[j]]

\* the multi-index (0-based) of the element at row-major position lin
Unravel(shp, lin) ==
    [j \in 1..Len(shp) |-> (lin \div Prod(SubSeq(shp, j + 1, Len(shp)))) % shp[j]]

RECURSIVE Ravel(_, _)
Ravel(shp, idx) ==
    IF shp = <<>> THEN 0
    ELSE idx[1] * Prod(Tail(shp)) + Ravel(Tail(shp), Tail(idx))

\* the element of a that broadcasting puts at position lin of the result
BroadcastAt(a, rshape, lin) ==
    LET idx == Unravel(rshape, lin)
        pad == Len(rshape) - Len(a.shape)
        aidx == [j \in 1..Len(a.shape) |-> IF a.shape[j] = 1 THEN 0 ELSE idx[j + pad]]
    IN a.flat[Ravel(a.shape, aidx) + 1]

RECURSIVE SumAbsDiff(_, _, _, _)
SumAbsDiff(a, b, rshape, n) ==
    IF n = 0 THEN 0
    ELSE Abs(Sub("float64", BroadcastAt(a, rshape, n - 1), BroadcastAt(b, rshape, n - 1)))
         + SumAbsDiff(a, b, rshape, n - 1)

\* def mae_calc(y_true, predictions): np.mean(np.abs(y_true - predictions))
mae_calc(y_true, predictions) ==
    IF ~Broadcastable(y_true.shape, predictions.shape) THEN Raise("ValueError")
    ELSE LET rshape == BroadcastShape(y_true.shape, predictions.shape)
         IN [t |-> "ok",
             value |-> TrueDiv(SumAbsDiff(y_true, predictions, rshape, Prod(rshape)),
                               Prod(rshape))]

CallCalcPsvol ==
    /\ fn.t = "calc_psvol"
    /\ ret = None
    /\ ret' = calc_psvol(fn.high, fn.low)
    /\ UNCHANGED <<files, buildVars, fn, viewer, shown>>

CallMaeCalc ==
    /\ fn.t = "mae_calc"
    /\ ret = None
    /\ ret' = mae_calc(fn.y_true, fn.predictions)
    /\ UNCHANGED <<files, buildVars, fn, viewer, shown>>

\* the volumes shown or measured: n slices of 1 x 2 voxels
PlotVolumes ==
    { Decoded("float32", n, 1, 2, kind) : n \in 1..MaxSlices, kind \in {"const", "ramp"} }

\* arrays of model output, (N, H, W, 1)
PlotTensors ==
    { Array("float32", <<n, 1, 1, 1>>, [i \in 1..n |-> i - 1]) : n \in 1..MaxSlices }

\* the 1-D and 2-D arrays mae_calc is called with
MaeArrays ==
    { Array("float64", shp, [i \in 1..Prod(shp) |-> (i + off) % 3]) :
        shp \in SeqsUpTo(1..MaxAxis, 2) \ { <<>> }, off \in 0..1 }

InitPlot ==
    /\ fn \in { [t |-> "calc_psvol", high |-> h, low |-> l] : h \in PlotVolumes, l \in PlotVolumes }
           \cup { [t |-> "mae_calc", y_true |-> a, predictions |-> b] : a \in MaeArrays, b \in MaeArrays }
           \cup { [t |-> "interactive_show", vol |-> <<l, h>>] : l \in PlotVolumes, h \in PlotVolumes }
           \cup { [t |-> "interactive_inference", vol |-> <<a, b, c>>] :
                      a \in PlotTensors, b \in PlotTensors, c \in PlotTensors }
    /\ files = NoFiles
    /\ case_list = <<>>
    /\ shape = <<512, 512>>
    /\ pc = "idle"
    /\ pos = 1
    /\ inp_img = <<>>
    /\ tar_img = <<>>
    /\ train_dataset = None
    /\ exc = None
    /\ ret = None
    /\ viewer = Idle
    /\ shown = None

NextPlot ==
    CallCalcPsvol \/ CallMaeCalc \/ interactive_show \/ interactive_inference \/ Slide

SpecPlot == InitPlot /\ [][NextPlot]_vars

---------------------------------------------------------------------------
(* Properties of plot_utils.py *)

\* C8: for volumes of the same slice count n, calc_psvol returns a PSNR and
\* an SSIM sequence of length n each, entry i computed from slice i of both
\* volumes with the data range max - min of high-res slice i.
C8_PerSliceQuality ==
    (fn.t = "calc_psvol" /\ ret # None /\ PyLen(fn.high) = PyLen(fn.low)) =>
        /\ ret.t = "ok"
        /\ Len(ret.psnr) = PyLen(fn.high)
        /\ Len(ret.ssim) = PyLen(fn.high)
        /\ \A i \in 1..PyLen(fn.high) :
              LET h == Index0(fn.high, i - 1)
                  m == [high |-> h, low |-> Index0(fn.low, i - 1),
                        data_range |-> SeqMax(h.flat) - SeqMin(h.flat)]
              IN ret.psnr[i] = m /\ ret.ssim[i] = m

\* C9: mae_calc returns a value only for two arrays of the same shape; for
\* arrays whose shapes differ it fails.
C9_MaeShapeMismatch ==
    (fn.t = "mae_calc" /\ ret # None /\ fn.y_true.shape # fn.predictions.shape) =>
        ret.t = "raise"

\* C10: every position of the viewers' slider is a valid slice index of
\* the displayed volumes (taken here with one common slice count), and the
\* callback never indexes out of bounds.
C10_SliderInBounds ==
    (viewer # Idle /\ \A j \in 1..Len(viewer.vol) : PyLen(viewer.vol[j]) = PyLen(viewer.vol[1])) =>
        /\ \A j \in 1..Len(viewer.vol) :
              0 <= viewer.slider.value /\ viewer.slider.value < PyLen(viewer.vol[j])
        /\ ~(shown.t = "raise" /\ shown.exc = "IndexError")

====
